---- MODULE Spec2Model ----
(***************************************************************************)
(* A model of scale_serp: the request builders of heritage.rs (Params) and *)
(* locations.rs (LocReqConfig), and the serde-derived decoders of the two  *)
(* response schemas (Resp, LocationResp).                                  *)
(*                                                                         *)
(* A Rust String is a sequence of one-character strings; Option<T> is a    *)
(* sequence of length at most one (None is <<>>, Some(x) is <<x>>).        *)
(***************************************************************************)
EXTENDS Integers, Sequences, FiniteSets, TLC

VARIABLES
    input,       \* the texts the caller passes: api_key, location and q
    env,        \* the environment variable SCALE_SERP_KEY: None (unset) or Some(value)
    call,       \* the last library call and its arguments
    params,     \* Option<Params>: the Params value the caller holds
    surl,       \* Option<String>: the last result of Params::to_url
    cfg,        \* Option<LocReqConfig>: the LocReqConfig value the caller holds
    lurl,       \* Option<String>: the last result of LocReqConfig::to_url
    panicked,   \* TRUE once an unwrap() has panicked: the caller is aborted
    body,       \* the JSON body handed to the decoder
    edits,      \* how body was derived from the full well-formed body
    resp        \* Option<Result>: the last result of decoding body

vars == <<input, env, call, params, surl, cfg, lurl, panicked, body, edits, resp>>

reqVars == <<input, env, call, params, surl, cfg, lurl, panicked>>
decVars == <<body, edits, resp>>

----------------------------------------------------------------------------
(* Bounds *)

\* the longest free text (q, location) a caller supplies
MaxLen == 2

\* the number of edits applied to the well-formed response body
MaxEdits == 1

----------------------------------------------------------------------------
(* Option and String *)

None == <<>>
Some(x) == <<x>>
IsSome(o) == o # None
Unwrap(o) == o[1]

\* the characters free text is made of: a plain letter, and the characters
\* that are special inside a URL query
FreeChars == {"a", " ", "&", "=", "#"}

RECURSIVE StringsUpTo(_)
StringsUpTo(n) ==
    IF n = 0 THEN {<<>>}
    ELSE LET shorter == StringsUpTo(n - 1)
         IN  shorter \cup {Append(s, c) : s \in shorter, c \in FreeChars}

FreeText == StringsUpTo(MaxLen)

\* format!(template, input...): every "{}" of the template is replaced by the
\* next argument's Display text, everything else is copied
RECURSIVE Format(_, _)
Format(template, args) ==
    IF template = <<>> THEN <<>>
    ELSE IF Len(template) >= 2 /\ template[1] = "{" /\ template[2] = "}"
         THEN Head(args) \o Format(SubSeq(template, 3, Len(template)), Tail(args))
         ELSE <<Head(template)>> \o Format(Tail(template), args)

\* String::push and String::push_str
Push(s, c) == Append(s, c)
PushStr(s, t) == s \o t

----------------------------------------------------------------------------
(* heritage.rs: Params *)

SearchTemplate == <<"h","t","t","p","s",":","/","/","a","p","i",".","s","c","a","l","e","s","e","r","p",".","c","o","m","/","s","e","a","r","c","h","?","a","p","i","_","k","e","y","=","{","}","&","l","o","c","a","t","i","o","n","=","{","}","&","q","=","{","}">>

NycLocation == <<"N","e","w"," ","Y","o","r","k",",","N","e","w"," ","Y","o","r","k",",","U","n","i","t","e","d"," ","S","t","a","t","e","s">>

UsaLocation == <<"U","n","i","t","e","d","+","S","t","a","t","e","s">>

\* env::var("SCALE_SERP_KEY") is Ok(val) or Err(_); on Err the key is ""
new_env(e, q, location) ==
    [api_key  |-> IF IsSome(e) THEN Unwrap(e) ELSE <<>>,
     location |-> location,
     q        |-> q]

\* a faulty new_env_nyc: the other preset's location
new_env_nyc_mut(e, q) == new_env(e, q, UsaLocation)

new_env_nyc(e, q) == new_env(e, q, NycLocation)

new_env_usa(e, q) == new_env(e, q, UsaLocation)

\* a faulty to_url: q and location given to format! in the wrong order
params_to_url_mut(p) == Format(SearchTemplate, <<p.api_key, p.q, p.location>>)

params_to_url(p) == Format(SearchTemplate, <<p.api_key, p.location, p.q>>)

----------------------------------------------------------------------------
(* locations.rs: LocReqConfig *)

LocTemplate == <<"h","t","t","p","s",":","/","/","a","p","i",".","s","c","a","l","e","s","e","r","p",".","c","o","m","/","l","o","c","a","t","i","o","n","s","?","a","p","i","_","k","e","y","=","{","}","&","q","=","{","}">>

loc_new(api_key, q) ==
    [api_key |-> api_key, q |-> q, type |-> None, country_code |-> None]

\* a faulty to_url: the '&' of type is pushed before the match
loc_to_url_mut(c) ==
    LET url0 == Format(LocTemplate, <<c.api_key, c.q>>)
        url1 == IF c.type = None THEN Push(url0, "&")
                ELSE PushStr(Push(url0, "&"), Unwrap(c.type))
    IN  IF c.country_code = None THEN url1
        ELSE PushStr(Push(url1, "&"), Unwrap(c.country_code))

loc_to_url(c) ==
    LET url0 == Format(LocTemplate, <<c.api_key, c.q>>)
        url1 == IF c.type = None THEN url0
                ELSE PushStr(Push(url0, "&"), Unwrap(c.type))
    IN  IF c.country_code = None THEN url1
        ELSE PushStr(Push(url1, "&"), Unwrap(c.country_code))

\* a faulty new_from_env: unwrap_or_default() in place of unwrap()
new_from_env_mut(e, q) ==
    [panic |-> FALSE,
     value |-> Some(loc_new(IF IsSome(e) THEN Unwrap(e) ELSE <<>>, q))]

\* env::var("SCALE_SERP_KEY").unwrap() panics on Err: no config is returned
new_from_env(e, q) ==
    IF IsSome(e)
    THEN [panic |-> FALSE, value |-> Some(loc_new(Unwrap(e), q))]
    ELSE [panic |-> TRUE, value |-> None]

----------------------------------------------------------------------------
(* The callers of the request builders *)

\* the values SCALE_SERP_KEY may hold
Keys == {<<>>, <<"K">>}

\* the locations a caller passes: short free text and the two preset texts
Locations == StringsUpTo(1) \cup {NycLocation, UsaLocation}

\* the filters a caller sets on a LocReqConfig
TypeValues == {<<>>, <<"c","i","t","y">>}
CountryCodes == {<<>>, <<"u","s">>}

\* the queries of the callers that only compare the two constructors
FewQueries == {<<>>, <<"a">>, <<"a"," ","a">>}

Args(keys, locations, queries) ==
    [api_key : keys, location : locations, q : queries]

ReqInit(argSet) ==
    /\ input \in argSet
    /\ env \in {None} \cup {Some(k) : k \in Keys}
    /\ call = "none"
    /\ params = None
    /\ surl = None
    /\ cfg = None
    /\ lurl = None
    /\ panicked = FALSE

\* let p = Params { api_key, location, q }: the fields are public
ParamsLiteral ==
    /\ ~panicked
    /\ params' = Some([api_key |-> input.api_key, location |-> input.location,
                       q |-> input.q])
    /\ surl' = None
    /\ call' = "Params"
    /\ UNCHANGED <<input, env, cfg, lurl, panicked, decVars>>

NewEnv ==
    /\ ~panicked
    /\ params' = Some(new_env(env, input.q, input.location))
    /\ surl' = None
    /\ call' = "new_env"
    /\ UNCHANGED <<input, env, cfg, lurl, panicked, decVars>>

NewEnvNyc ==
    /\ ~panicked
    /\ params' = Some(new_env_nyc(env, input.q))
    /\ surl' = None
    /\ call' = "new_env_nyc"
    /\ UNCHANGED <<input, env, cfg, lurl, panicked, decVars>>

NewEnvUsa ==
    /\ ~panicked
    /\ params' = Some(new_env_usa(env, input.q))
    /\ surl' = None
    /\ call' = "new_env_usa"
    /\ UNCHANGED <<input, env, cfg, lurl, panicked, decVars>>

ParamsToUrl ==
    /\ ~panicked
    /\ IsSome(params)
    /\ surl' = Some(params_to_url(Unwrap(params)))
    /\ UNCHANGED <<input, env, call, params, cfg, lurl, panicked, decVars>>

LocNew ==
    /\ ~panicked
    /\ cfg' = Some(loc_new(input.api_key, input.q))
    /\ lurl' = None
    /\ call' = "new"
    /\ UNCHANGED <<input, env, params, surl, panicked, decVars>>

LocNewFromEnv ==
    /\ ~panicked
    /\ LET r == new_from_env(env, input.q)
       IN  /\ panicked' = r.panic
           /\ cfg' = IF r.panic THEN cfg ELSE r.value
           /\ lurl' = IF r.panic THEN lurl ELSE None
    /\ call' = "new_from_env"
    /\ UNCHANGED <<input, env, params, surl, decVars>>

\* config.r#type = t: the field is public
SetType(t) ==
    /\ ~panicked
    /\ IsSome(cfg)
    /\ cfg' = Some([Unwrap(cfg) EXCEPT !.type = t])
    /\ lurl' = None
    /\ call' = "set_type"
    /\ UNCHANGED <<input, env, params, surl, panicked, decVars>>

\* config.country_code = c: the field is public
SetCountryCode(c) ==
    /\ ~panicked
    /\ IsSome(cfg)
    /\ cfg' = Some([Unwrap(cfg) EXCEPT !.country_code = c])
    /\ lurl' = None
    /\ call' = "set_country_code"
    /\ UNCHANGED <<input, env, params, surl, panicked, decVars>>

LocToUrl ==
    /\ ~panicked
    /\ IsSome(cfg)
    /\ lurl' = Some(loc_to_url(Unwrap(cfg)))
    /\ UNCHANGED <<input, env, call, params, surl, cfg, panicked, decVars>>

----------------------------------------------------------------------------
(* JSON values, as serde_json reads them *)

JNull == [k |-> "null", v |-> <<>>]
JBool(b) == [k |-> "bool", v |-> b]
JInt(n) == [k |-> "int", v |-> n]
\* a number with a fraction, counted in halves: JFloat(3) is 1.5
JFloat(halves) == [k |-> "float", v |-> halves]
JStr(s) == [k |-> "str", v |-> s]
JArr(elems) == [k |-> "arr", v |-> elems]
JObj(members) == [k |-> "obj", v |-> members]

\* the object without members
NoMembers == [n \in {} |-> JNull]

----------------------------------------------------------------------------
(* The types the derived Deserialize implementations are generated for *)

TBool == [t |-> "bool"]
TUsize == [t |-> "usize"]
TI32 == [t |-> "i32"]
TU32 == [t |-> "u32"]
TF64 == [t |-> "f64"]
TString == [t |-> "String"]
TOption(of) == [t |-> "Option", of |-> of]
TVec(of) == [t |-> "Vec", of |-> of]
TStruct(fields) == [t |-> "struct", fields |-> fields]
F(name, ty) == [name |-> name, ty |-> ty]

FieldNames(ty) == {ty.fields[i].name : i \in DOMAIN ty.fields}
FieldType(ty, name) ==
    ty.fields[CHOOSE i \in DOMAIN ty.fields : ty.fields[i].name = name].ty

(* heritage.rs *)

RequestInfo == TStruct(<<
    F("success", TBool),
    F("credits_used", TUsize),
    F("credits_used_this_request", TUsize),
    F("credits_remaining", TUsize),
    F("credits_reset_at", TString)>>)

SearchParameters == TStruct(<<
    F("location", TString),
    F("q", TString)>>)

SearchMetadata == TStruct(<<
    F("created_at", TString),
    F("processed_at", TString),
    F("total_time_taken", TF64),
    F("engine_url", TString),
    F("html_url", TString),
    F("json_url", TString),
    F("location_auto_message", TOption(TString))>>)

SearchInformation == TStruct(<<
    F("original_query_yields_zero_results", TBool),
    F("total_results", TUsize),
    F("time_taken_displayed", TF64),
    F("query_displayed", TString),
    F("detected_location", TOption(TString))>>)

AdSitelink == TStruct(<<
    F("title", TString),
    F("link", TString)>>)

Ad == TStruct(<<
    F("position", TUsize),
    F("block_position", TString),
    F("title", TString),
    F("link", TString),
    F("domain", TString),
    F("displayed_link", TString),
    F("description", TString),
    F("sitelinks", TOption(TVec(AdSitelink)))>>)

OrganicResult == TStruct(<<
    F("position", TUsize),
    F("title", TString),
    F("link", TString),
    F("domain", TString),
    F("displayed_link", TString),
    F("snippet", TString),
    F("prerender", TBool),
    F("snippet_matched", TOption(TVec(TString))),
    F("block_position", TUsize)>>)

TopStory == TStruct(<<
    F("link", TString),
    F("title", TString),
    F("visible_initially", TBool),
    F("source", TString),
    F("date", TString),
    F("date_utc", TString),
    F("block_position", TUsize)>>)

TopProductSource == TStruct(<<
    F("name", TString),
    F("link", TString),
    F("title", TString)>>)

TopProductSpecification == TStruct(<<
    F("name", TString),
    F("value", TString)>>)

TopProduct == TStruct(<<
    F("title", TString),
    F("price", TString),
    F("rating", TF64),
    F("sources", TVec(TopProductSource)),
    F("specifications", TVec(TopProductSpecification)),
    F("block_position", TUsize)>>)

RelatedQuestionSource == TStruct(<<
    F("link", TString),
    F("displayed_link", TString),
    F("title", TString)>>)

RelatedQuestion == TStruct(<<
    F("question", TString),
    F("answer", TString),
    F("source", RelatedQuestionSource),
    F("block_position", TUsize)>>)

RelatedSearch == TStruct(<<
    F("query", TString),
    F("link", TString)>>)

Resp == TStruct(<<
    F("request_info", RequestInfo),
    F("search_metadata", SearchMetadata),
    F("search_parameters", SearchParameters),
    F("search_information", SearchInformation),
    F("ads", TOption(TVec(Ad))),
    F("top_stories", TOption(TVec(TopStory))),
    F("top_products", TOption(TVec(TopProduct))),
    F("related_searches", TVec(RelatedSearch)),
    F("related_questions", TOption(TVec(RelatedQuestion))),
    F("organic_results", TVec(OrganicResult))>>)

(* locations.rs *)

LocRequestInfo == TStruct(<<
    F("success", TBool)>>)

GpsCoordinates == TStruct(<<
    F("latitude", TF64),
    F("longitude", TF64)>>)

Location == TStruct(<<
    F("id", TI32),
    F("name", TString),
    F("type", TString),
    F("full_name", TString),
    F("parent_id", TI32),
    F("country_code", TString),
    F("reach", TU32),
    F("gps_coordinates", GpsCoordinates)>>)

LocationResp == TStruct(<<
    F("request_info", LocRequestInfo),
    F("locations_total", TI32),
    F("locations_total_current_page", TI32),
    F("page", TI32),
    F("limit", TI32),
    F("locations", TVec(Location))>>)

----------------------------------------------------------------------------
(* serde_json::from_slice::<T>, for the derived Deserialize of T *)

Ok(v) == [ok |-> TRUE, val |-> v]
Err == [ok |-> FALSE, val |-> <<>>]

\* a faulty derive: #[serde(deny_unknown_fields)]
AcceptsKeys_deny(ty, keys) == keys \subseteq FieldNames(ty)

\* a key of the body that names no field: without #[serde(deny_unknown_fields)]
\* the derived visitor reads it as IgnoredAny
AcceptsKeys(ty, keys) == TRUE

\* a faulty derive: #[serde(default)] on every field
MissingField_default(ty) ==
    CASE ty.t = "Option" -> Ok(None)
      [] ty.t = "Vec" -> Ok(<<>>)
      [] ty.t = "String" -> Ok("")
      [] ty.t = "bool" -> Ok(FALSE)
      [] ty.t \in {"usize", "i32", "u32", "f64"} -> Ok(0)
      [] OTHER -> Err

\* a faulty derive: an Option field without its key is an error too
MissingField_strict(ty) == Err

\* a field whose key is not in the body: an Option field is None, any other
\* field is the error "missing field"
MissingField(ty) == IF ty.t = "Option" THEN Ok(None) ELSE Err

\* a number: usize and u32 take no negative integer and no float, i32 no
\* float, f64 takes any number and holds it in halves (the integers here
\* are within every width)
DecodeNumber(ty, j) ==
    CASE ty.t \in {"usize", "u32"} ->
            IF j.k = "int" /\ j.v >= 0 THEN Ok(j.v) ELSE Err
      [] ty.t = "i32" ->
            IF j.k = "int" THEN Ok(j.v) ELSE Err
      [] ty.t = "f64" ->
            CASE j.k = "int" -> Ok(2 * j.v)
              [] j.k = "float" -> Ok(j.v)
              [] OTHER -> Err

RECURSIVE Decode(_, _)
Decode(ty, j) ==
    CASE ty.t = "bool" -> IF j.k = "bool" THEN Ok(j.v) ELSE Err
      [] ty.t = "String" -> IF j.k = "str" THEN Ok(j.v) ELSE Err
      [] ty.t \in {"usize", "i32", "u32", "f64"} -> DecodeNumber(ty, j)
      [] ty.t = "Option" ->
            IF j.k = "null" THEN Ok(None)
            ELSE LET r == Decode(ty.of, j)
                 IN  IF r.ok THEN Ok(Some(r.val)) ELSE Err
      [] ty.t = "Vec" ->
            IF j.k # "arr" THEN Err
            ELSE LET rs == [i \in DOMAIN j.v |-> Decode(ty.of, j.v[i])]
                 IN  IF \A i \in DOMAIN rs : rs[i].ok
                     THEN Ok([i \in DOMAIN rs |-> rs[i].val])
                     ELSE Err
      [] ty.t = "struct" ->
            CASE j.k = "obj" ->
                    \* visit_map: the fields by key
                    LET rs == [n \in FieldNames(ty) |->
                                 IF n \in DOMAIN j.v
                                 THEN Decode(FieldType(ty, n), j.v[n])
                                 ELSE MissingField(FieldType(ty, n))]
                    IN  IF /\ AcceptsKeys(ty, DOMAIN j.v)
                           /\ \A n \in FieldNames(ty) : rs[n].ok
                        THEN Ok([n \in FieldNames(ty) |-> rs[n].val])
                        ELSE Err
              [] j.k = "arr" ->
                    \* visit_seq: the fields by position, all of them
                    IF Len(j.v) # Len(ty.fields) THEN Err
                    ELSE LET rs == [i \in DOMAIN ty.fields |->
                                      Decode(ty.fields[i].ty, j.v[i])]
                         IN  IF \A i \in DOMAIN rs : rs[i].ok
                             THEN Ok([n \in FieldNames(ty) |->
                                       rs[CHOOSE i \in DOMAIN ty.fields :
                                            ty.fields[i].name = n].val])
                             ELSE Err
              [] OTHER -> Err

\* a well-formed value of a type: every section present, one element a list
RECURSIVE Sample(_)
Sample(ty) ==
    CASE ty.t = "bool" -> JBool(TRUE)
      [] ty.t = "String" -> JStr("s")
      [] ty.t \in {"usize", "i32", "u32"} -> JInt(1)
      [] ty.t = "f64" -> JFloat(3)
      [] ty.t = "Option" -> Sample(ty.of)
      [] ty.t = "Vec" -> JArr(<<Sample(ty.of)>>)
      [] ty.t = "struct" ->
            JObj([n \in FieldNames(ty) |-> Sample(FieldType(ty, n))])

\* the smallest well-formed value of a type: every Option absent, every
\* list empty
RECURSIVE Minimal(_)
Minimal(ty) ==
    CASE ty.t = "bool" -> JBool(FALSE)
      [] ty.t = "String" -> JStr("")
      [] ty.t \in {"usize", "i32", "u32", "f64"} -> JInt(0)
      [] ty.t = "Option" -> JNull
      [] ty.t = "Vec" -> JArr(<<>>)
      [] ty.t = "struct" ->
            LET present == {n \in FieldNames(ty) : FieldType(ty, n).t # "Option"}
            IN  JObj([n \in present |-> Minimal(FieldType(ty, n))])

----------------------------------------------------------------------------
(* Places in a JSON value: a path is a sequence of member keys and element *)
(* indices; the index i (from 0) is the step Idx[i + 1]                    *)

Idx == <<"0", "1", "2", "3", "4", "5", "6", "7", "8", "9">>
IsIdx(step) == \E i \in DOMAIN Idx : Idx[i] = step
IdxOf(step) == CHOOSE i \in DOMAIN Idx : Idx[i] = step

\* whether a value has a child at a step
HasStep(j, step) ==
    CASE j.k = "obj" -> step \in DOMAIN j.v
      [] j.k = "arr" -> IsIdx(step) /\ IdxOf(step) <= Len(j.v)
      [] OTHER -> FALSE

Child(j, step) == IF j.k = "obj" THEN j.v[step] ELSE j.v[IdxOf(step)]

RECURSIVE Has(_, _)
Has(j, p) ==
    IF p = <<>> THEN TRUE
    ELSE IF HasStep(j, Head(p)) THEN Has(Child(j, Head(p)), Tail(p))
    ELSE FALSE

RECURSIVE Get(_, _)
Get(j, p) == IF p = <<>> THEN j ELSE Get(Child(j, Head(p)), Tail(p))

RECURSIVE Put(_, _, _)
Put(j, p, new) ==
    IF p = <<>> THEN new
    ELSE IF j.k = "obj"
         THEN JObj([j.v EXCEPT ![Head(p)] = Put(@, Tail(p), new)])
         ELSE JArr([j.v EXCEPT ![IdxOf(Head(p))] = Put(@, Tail(p), new)])

Front(p) == SubSeq(p, 1, Len(p) - 1)
Last(p) == p[Len(p)]

\* the object without one member
Without(members, key) == [n \in DOMAIN members \ {key} |-> members[n]]

\* the object with one more member
With(members, key, new) ==
    [n \in DOMAIN members \cup {key} |-> IF n = key THEN new ELSE members[n]]

RECURSIVE Places(_)
Places(j) ==
    {<<>>} \cup
    CASE j.k = "obj" ->
            UNION {{<<n>> \o p : p \in Places(j.v[n])} : n \in DOMAIN j.v}
      [] j.k = "arr" ->
            UNION {{<<Idx[i]>> \o p : p \in Places(j.v[i])} : i \in DOMAIN j.v}
      [] OTHER -> {}

\* the declared type of a place, Option stripped; [t |-> "none"] off the schema
Strip(ty) == IF ty.t = "Option" THEN ty.of ELSE ty

RECURSIVE TypeAt(_, _)
TypeAt(ty, p) ==
    IF p = <<>> THEN ty
    ELSE LET s == Strip(ty)
         IN  CASE s.t = "struct" /\ Head(p) \in FieldNames(s) ->
                     TypeAt(FieldType(s, Head(p)), Tail(p))
               [] s.t = "Vec" /\ IsIdx(Head(p)) -> TypeAt(s.of, Tail(p))
               [] OTHER -> [t |-> "none"]

----------------------------------------------------------------------------
(* The bodies the remote service sends: a well-formed body, and what a     *)
(* change of its payload makes of it                                       *)

\* the values a member or element is replaced by: null, a number, a string
\* and the empty list
Probes == {JNull, JInt(1), JStr("s"), JArr(<<>>)}

UnknownKey == "unknown_key"

Edit(kind, path, new) == [kind |-> kind, path |-> path, new |-> new]

\* a record given as the array of its fields' values, in declaration order
SeqForm(ty, j) == JArr([i \in DOMAIN ty.fields |-> j.v[ty.fields[i].name]])

DecInit(root) ==
    /\ body \in {Sample(root), Minimal(root)}
    /\ edits = {}
    /\ resp = None

CanEdit == Cardinality(edits) < MaxEdits

\* the member at path p is left out of the body
RemoveMember(p) ==
    /\ CanEdit
    /\ p # <<>> /\ Has(body, p)
    /\ Get(body, Front(p)).k = "obj"
    /\ body' = Put(body, Front(p), JObj(Without(Get(body, Front(p)).v, Last(p))))
    /\ edits' = edits \cup {Edit("remove", p, JNull)}
    /\ resp' = None
    /\ UNCHANGED reqVars

\* the member or element at path p holds another value
Replace(p, new) ==
    /\ CanEdit
    /\ p # <<>> /\ Has(body, p)
    /\ Get(body, p) # new
    /\ body' = Put(body, p, new)
    /\ edits' = edits \cup {Edit("replace", p, new)}
    /\ resp' = None
    /\ UNCHANGED reqVars

\* the record at path p is sent as an array
SendAsArray(root, p) ==
    /\ CanEdit
    /\ Has(body, p)
    /\ LET ty == Strip(TypeAt(root, p))
           j == Get(body, p)
       IN  /\ ty.t = "struct" /\ j.k = "obj"
           /\ FieldNames(ty) \subseteq DOMAIN j.v
           /\ body' = Put(body, p, SeqForm(ty, j))
    /\ edits' = edits \cup {Edit("array", p, JNull)}
    /\ resp' = None
    /\ UNCHANGED reqVars

\* the object at path p gets a member the schema does not name
AddUnknown(p) ==
    /\ CanEdit
    /\ Has(body, p)
    /\ Get(body, p).k = "obj"
    /\ UnknownKey \notin DOMAIN Get(body, p).v
    /\ body' = Put(body, p, JObj(With(Get(body, p).v, UnknownKey, JStr("s"))))
    /\ edits' = edits \cup {Edit("unknown", p, JNull)}
    /\ resp' = None
    /\ UNCHANGED reqVars

\* let body: Resp = response.json()
DecodeResp ==
    /\ resp = None
    /\ resp' = Some(Decode(Resp, body))
    /\ UNCHANGED <<body, edits, reqVars>>

\* let body: LocationResp = response.json()
DecodeLocationResp ==
    /\ resp = None
    /\ resp' = Some(Decode(LocationResp, body))
    /\ UNCHANGED <<body, edits, reqVars>>

----------------------------------------------------------------------------
(* Specifications *)

\* no body is decoded
DecIdle ==
    /\ body = JNull
    /\ edits = {}
    /\ resp = None

\* no request is built
ReqIdle == ReqInit(Args({<<>>}, {<<>>}, {<<>>})) /\ env = None

\* a caller of the search request builder
Init ==
    /\ ReqInit(Args(Keys, Locations, FreeText))
    /\ DecIdle

Next ==
    \/ ParamsLiteral
    \/ NewEnv
    \/ NewEnvNyc
    \/ NewEnvUsa
    \/ ParamsToUrl

Spec == Init /\ [][Next]_vars

\* a caller of the locations request builder
LocInit ==
    /\ ReqInit(Args(Keys, {<<>>}, FreeText))
    /\ DecIdle

LocNext ==
    \/ LocNew
    \/ LocNewFromEnv
    \/ \E t \in TypeValues : SetType(Some(t))
    \/ SetType(None)
    \/ \E c \in CountryCodes : SetCountryCode(Some(c))
    \/ SetCountryCode(None)
    \/ LocToUrl

SpecLoc == LocInit /\ [][LocNext]_vars

\* a caller of the constructors that read the environment
EnvInit ==
    /\ ReqInit(Args({<<>>}, Locations, FewQueries))
    /\ DecIdle

EnvNext ==
    \/ NewEnv
    \/ NewEnvNyc
    \/ NewEnvUsa
    \/ LocNewFromEnv

SpecEnv == EnvInit /\ [][EnvNext]_vars

\* a caller decoding the body of a search response
DecodeInit ==
    /\ ReqIdle
    /\ DecInit(Resp)

DecodeNext ==
    \/ \E p \in Places(body) : RemoveMember(p)
    \/ \E p \in Places(body), new \in Probes : Replace(p, new)
    \/ \E p \in Places(body) : SendAsArray(Resp, p)
    \/ \E p \in Places(body) : AddUnknown(p)
    \/ DecodeResp

SpecDecode == DecodeInit /\ [][DecodeNext]_vars

\* a caller decoding the body of a locations response
LocDecodeInit ==
    /\ ReqIdle
    /\ DecInit(LocationResp)

LocDecodeNext ==
    \/ \E p \in Places(body) : RemoveMember(p)
    \/ \E p \in Places(body), new \in Probes : Replace(p, new)
    \/ \E p \in Places(body) : SendAsArray(LocationResp, p)
    \/ \E p \in Places(body) : AddUnknown(p)
    \/ DecodeLocationResp

SpecLocDecode == LocDecodeInit /\ [][LocDecodeNext]_vars

----------------------------------------------------------------------------
(* Reading a URL back: the query is what follows the first "?" up to the   *)
(* first "#"; its parameters are separated by "&", name and value by the   *)
(* first "="; both are percent-decoded                                     *)

\* the index of the first c in s, 0 when there is none
RECURSIVE IndexFrom(_, _, _)
IndexFrom(s, c, i) ==
    IF i > Len(s) THEN 0
    ELSE IF s[i] = c THEN i
    ELSE IndexFrom(s, c, i + 1)

IndexOf(s, c) == IndexFrom(s, c, 1)

Before(s, c) == IF IndexOf(s, c) = 0 THEN s ELSE SubSeq(s, 1, IndexOf(s, c) - 1)
After(s, c) == IF IndexOf(s, c) = 0 THEN <<>> ELSE SubSeq(s, IndexOf(s, c) + 1, Len(s))

RECURSIVE SplitOn(_, _)
SplitOn(s, c) ==
    IF IndexOf(s, c) = 0 THEN <<s>>
    ELSE <<Before(s, c)>> \o SplitOn(After(s, c), c)

RECURSIVE Count(_, _)
Count(s, c) ==
    IF s = <<>> THEN 0
    ELSE (IF Head(s) = c THEN 1 ELSE 0) + Count(Tail(s), c)

\* %20 %23 %26 %2C %3D are the characters they stand for
Escaped(hi, lo) ==
    CASE hi = "2" /\ lo = "0" -> <<" ">>
      [] hi = "2" /\ lo = "3" -> <<"#">>
      [] hi = "2" /\ lo = "6" -> <<"&">>
      [] hi = "2" /\ lo = "C" -> <<",">>
      [] hi = "3" /\ lo = "D" -> <<"=">>
      [] OTHER -> <<"%", hi, lo>>

RECURSIVE PercentDecode(_)
PercentDecode(s) ==
    IF s = <<>> THEN <<>>
    ELSE IF Head(s) = "%" /\ Len(s) >= 3
         THEN Escaped(s[2], s[3]) \o PercentDecode(SubSeq(s, 4, Len(s)))
         ELSE <<Head(s)>> \o PercentDecode(Tail(s))

Pair(piece) == <<PercentDecode(Before(piece, "=")), PercentDecode(After(piece, "="))>>

QueryOf(url) == Before(After(url, "?"), "#")

QueryPairs(url) ==
    LET pieces == SplitOn(QueryOf(url), "&")
    IN  [i \in DOMAIN pieces |-> Pair(pieces[i])]

\* free text without a character that is special inside a URL query
Plain(s) == \A i \in DOMAIN s : s[i] \notin {" ", "&", "=", "#", "%", "+", "?"}

\* the texts the claims name
SearchEndpoint == <<"h","t","t","p","s",":","/","/","a","p","i",".","s","c","a","l","e","s","e","r","p",".","c","o","m","/","s","e","a","r","c","h","?">>
LocationsEndpoint == <<"h","t","t","p","s",":","/","/","a","p","i",".","s","c","a","l","e","s","e","r","p",".","c","o","m","/","l","o","c","a","t","i","o","n","s","?">>
NameApiKey == <<"a","p","i","_","k","e","y">>
NameLocation == <<"l","o","c","a","t","i","o","n">>
NameQ == <<"q">>
NameType == <<"t","y","p","e">>
NameCountryCode == <<"c","o","u","n","t","r","y","_","c","o","d","e">>
StatedNyc == <<"N","e","w"," ","Y","o","r","k",","," ","N","Y",","," ","U","S">>
StatedUsa == <<"U","n","i","t","e","d"," ","S","t","a","t","e","s">>
CodeNyc == <<"N","e","w"," ","Y","o","r","k",",","N","e","w"," ","Y","o","r","k",",","U","n","i","t","e","d"," ","S","t","a","t","e","s">>
CodeUsa == <<"U","n","i","t","e","d","+","S","t","a","t","e","s">>

NamedPair(name, value) == name \o <<"=">> \o value

----------------------------------------------------------------------------
(* Claims about Params (heritage.rs), under Spec *)

\* C9: Params::to_url returns exactly
\* https://api.scaleserp.com/search?api_key=<k>&location=<l>&q=<q>: the three
\* parameters once each, in that order, one "&" between two of them and none
\* at the end, none left out when its value is empty.
C9_SearchUrlShape ==
    IsSome(surl) =>
        LET p == Unwrap(params)
            u == Unwrap(surl)
        IN  /\ u = SearchEndpoint \o NamedPair(NameApiKey, p.api_key) \o <<"&">>
                   \o NamedPair(NameLocation, p.location) \o <<"&">>
                   \o NamedPair(NameQ, p.q)
            /\ Count(u, "&") =
                   2 + Count(p.api_key, "&") + Count(p.location, "&") + Count(p.q, "&")
            /\ (Plain(p.api_key) /\ Plain(p.location) /\ Plain(p.q)) =>
                   /\ QueryPairs(u) = << <<NameApiKey, p.api_key>>,
                                         <<NameLocation, p.location>>,
                                         <<NameQ, p.q>> >>
                   /\ u[Len(u)] # "&"

\* C9's case: the URL of a Params whose api_key is empty
C9_Witness ==
    /\ IsSome(surl)
    /\ Unwrap(params).api_key = <<>>
    /\ Unwrap(params).q = <<"a">>
    /\ Unwrap(params).location = NycLocation

\* C2: read back, the URL of a Params whose q or location holds a space,
\* "&", "=" or "#" has exactly the parameters api_key, location and q, and
\* the decoded location and q are the original texts.
C2_RoundTrip ==
    (/\ IsSome(surl)
     /\ ~Plain(Unwrap(params).q) \/ ~Plain(Unwrap(params).location)) =>
        QueryPairs(Unwrap(surl)) =
            << <<NameApiKey, Unwrap(params).api_key>>,
               <<NameLocation, Unwrap(params).location>>,
               <<NameQ, Unwrap(params).q>> >>

\* C7 as stated: new_env_nyc fixes location to "New York, NY, US" and
\* new_env_usa to "United States", whatever the query, and q is the query.
C7_PresetsAsStated ==
    /\ call = "new_env_nyc" =>
           Unwrap(params).location = StatedNyc /\ Unwrap(params).q = input.q
    /\ call = "new_env_usa" =>
           Unwrap(params).location = StatedUsa /\ Unwrap(params).q = input.q

\* C7, amended: new_env_nyc fixes location to
\* "New York,New York,United States" and new_env_usa to "United+States",
\* whatever the query, and q is the query unchanged.
C7_Presets ==
    /\ call = "new_env_nyc" =>
           Unwrap(params).location = CodeNyc /\ Unwrap(params).q = input.q
    /\ call = "new_env_usa" =>
           Unwrap(params).location = CodeUsa /\ Unwrap(params).q = input.q

\* C7's case: a preset called with a query holding a special character
C7_Witness ==
    /\ call = "new_env_nyc"
    /\ input.q = <<"a", "&">>
    /\ input.location # CodeNyc

----------------------------------------------------------------------------
(* Claims about the constructors that read SCALE_SERP_KEY, under SpecEnv *)

\* C6: with SCALE_SERP_KEY unset, Params::new_env and its presets return a
\* Params whose api_key is empty, and LocReqConfig::new_from_env panics and
\* returns no config; with it set, both hold the variable's value as api_key.
C6_EnvConstructors ==
    /\ call \in {"new_env", "new_env_nyc", "new_env_usa"} =>
           /\ ~panicked
           /\ IsSome(params)
           /\ Unwrap(params).api_key = IF env = None THEN <<>> ELSE Unwrap(env)
    /\ call = "new_from_env" =>
           IF env = None
           THEN panicked /\ cfg = None
           ELSE ~panicked /\ IsSome(cfg) /\ Unwrap(cfg).api_key = Unwrap(env)

\* C6's case: with the variable unset, new_env has returned and
\* new_from_env has panicked
C6_Witness ==
    /\ env = None
    /\ panicked
    /\ IsSome(params) /\ Unwrap(params).api_key = <<>>
    /\ cfg = None

----------------------------------------------------------------------------
(* Claims about LocReqConfig (locations.rs), under SpecLoc *)

\* C1: LocReqConfig::to_url emits each filter that is set as a named pair,
\* "&type=<t>" and then "&country_code=<c>", after "api_key=<k>&q=<q>".
C1_NamedFilters ==
    IsSome(lurl) =>
        LET c == Unwrap(cfg)
        IN  Unwrap(lurl) =
                LocationsEndpoint \o NamedPair(NameApiKey, c.api_key) \o <<"&">>
                \o NamedPair(NameQ, c.q)
                \o (IF IsSome(c.type)
                    THEN <<"&">> \o NamedPair(NameType, Unwrap(c.type)) ELSE <<>>)
                \o (IF IsSome(c.country_code)
                    THEN <<"&">> \o NamedPair(NameCountryCode, Unwrap(c.country_code))
                    ELSE <<>>)

\* what follows the first n characters
Drop(s, n) == SubSeq(s, n + 1, Len(s))

\* C5: a filter that is unset adds nothing to the URL. LocReqConfig::new
\* leaves both filters unset and its URL is exactly
\* https://api.scaleserp.com/locations?api_key=<k>&q=<q>, with no "&" at the
\* end; what one filter adds is the same whether or not the other is set;
\* and every parameter after the first is preceded by exactly one "&".
C5_UnsetFiltersAddNothing ==
    /\ call = "new" =>
           /\ IsSome(cfg)
           /\ Unwrap(cfg) = [api_key |-> input.api_key, q |-> input.q,
                             type |-> None, country_code |-> None]
    /\ IsSome(lurl) =>
           LET c == Unwrap(cfg)
               u == Unwrap(lurl)
               bare == LocationsEndpoint \o NamedPair(NameApiKey, c.api_key)
                       \o <<"&">> \o NamedPair(NameQ, c.q)
               onlyType == loc_to_url([c EXCEPT !.country_code = None])
               onlyCode == loc_to_url([c EXCEPT !.type = None])
               set == (IF IsSome(c.type) THEN 1 ELSE 0)
                      + (IF IsSome(c.country_code) THEN 1 ELSE 0)
               inValues == Count(c.api_key, "&") + Count(c.q, "&")
                           + (IF IsSome(c.type) THEN Count(Unwrap(c.type), "&") ELSE 0)
                           + (IF IsSome(c.country_code)
                              THEN Count(Unwrap(c.country_code), "&") ELSE 0)
           IN  /\ (c.type = None /\ c.country_code = None) =>
                      /\ u = bare
                      /\ Plain(c.q) => u[Len(u)] # "&"
               /\ c.type = None => onlyType = bare
               /\ c.country_code = None => onlyCode = bare
               /\ SubSeq(onlyType, 1, Len(bare)) = bare
               /\ SubSeq(onlyCode, 1, Len(bare)) = bare
               /\ u = bare \o Drop(onlyType, Len(bare)) \o Drop(onlyCode, Len(bare))
               /\ Count(u, "&") = 1 + set + inValues

\* C5's case: the URL of a config with country_code set and type unset
C5_Witness ==
    /\ IsSome(lurl)
    /\ Unwrap(cfg).type = None
    /\ Unwrap(cfg).country_code = Some(<<"u", "s">>)
    /\ Unwrap(cfg).q = <<"a">>

----------------------------------------------------------------------------
(* What the response schemas say of a body *)

\* whether a value has the JSON type a declared type is written in
KindFits(ty, j) ==
    CASE ty.t = "bool" -> j.k = "bool"
      [] ty.t = "String" -> j.k = "str"
      [] ty.t \in {"usize", "i32", "u32", "f64"} -> j.k \in {"int", "float"}
      [] ty.t = "Vec" -> j.k = "arr"
      [] ty.t = "struct" -> j.k = "obj"
      [] OTHER -> FALSE

\* whether some field outside `tolerated` is missing from a record of the
\* body or holds a value of another JSON type than declared, and so for the
\* elements of the lists; a tolerated field counts only by what is inside
\* it when it is present with its declared type. With `asArray`, a record
\* sent as an array is left out of the count.
RECURSIVE Defective(_, _, _, _)
Defective(ty, j, tolerated, asArray) ==
    CASE ty.t = "Option" -> Defective(ty.of, j, tolerated, asArray)
      [] ty.t = "struct" /\ j.k = "arr" /\ asArray -> FALSE
      [] ~KindFits(ty, j) -> TRUE
      [] ty.t = "Vec" ->
            \E i \in DOMAIN j.v : Defective(ty.of, j.v[i], tolerated, asArray)
      [] ty.t = "struct" ->
            \E n \in FieldNames(ty) :
                LET fty == Strip(FieldType(ty, n))
                IN  IF n \in tolerated
                    THEN /\ n \in DOMAIN j.v
                         /\ KindFits(fty, j.v[n])
                         /\ Defective(fty, j.v[n], tolerated, asArray)
                    ELSE \/ n \notin DOMAIN j.v
                         \/ Defective(fty, j.v[n], tolerated, asArray)
      [] OTHER -> FALSE

\* whether some field of a record of the body is missing
RECURSIVE LacksField(_, _)
LacksField(ty, j) ==
    CASE ty.t = "Option" -> LacksField(ty.of, j)
      [] ty.t = "Vec" /\ j.k = "arr" ->
            \E i \in DOMAIN j.v : LacksField(ty.of, j.v[i])
      [] ty.t = "struct" /\ j.k = "obj" ->
            \E n \in FieldNames(ty) :
                \/ n \notin DOMAIN j.v
                \/ LacksField(FieldType(ty, n), j.v[n])
      [] OTHER -> FALSE

\* the body without the members the schema does not name
RECURSIVE StripUnknown(_)
StripUnknown(j) ==
    CASE j.k = "obj" ->
            JObj([n \in DOMAIN j.v \ {UnknownKey} |-> StripUnknown(j.v[n])])
      [] j.k = "arr" -> JArr([i \in DOMAIN j.v |-> StripUnknown(j.v[i])])
      [] OTHER -> j

\* every edit leaves out, or sets to null, a member with one of these names
OnlyAbsences(names) ==
    \A e \in edits :
        /\ e.path # <<>> /\ Last(e.path) \in names
        /\ e.kind = "remove" \/ (e.kind = "replace" /\ e.new = JNull)

\* every edit leaves out, sets to null or empties a member with one of
\* these names
OnlyAbsencesOrEmpty(names, lists) ==
    \A e \in edits :
        /\ Len(e.path) = 1
        /\ \/ /\ e.path[1] \in names
              /\ e.kind = "remove" \/ (e.kind = "replace" /\ e.new \in {JNull, JArr(<<>>)})
           \/ /\ e.path[1] \in lists
              /\ e.kind = "replace" /\ e.new = JArr(<<>>)

Sections == {"ads", "top_stories", "top_products", "related_questions"}
AlwaysLists == {"related_searches", "organic_results"}
StatedOptional == Sections \cup {"sitelinks", "snippet_matched"}
DeclaredOptional == StatedOptional \cup {"location_auto_message", "detected_location"}

----------------------------------------------------------------------------
(* Claims about decoding a search response (heritage.rs), under SpecDecode *)

\* C3: a body decodes with ads, top_stories, top_products and
\* related_questions read as None where the key is missing or null, and as a
\* present empty list, which is not None, where the key holds []; whereas
\* related_searches and organic_results may be [] but a body missing either
\* does not decode.
C3_OptionalSections ==
    (IsSome(resp) /\ body.k = "obj") =>
        LET r == Unwrap(resp)
        IN  /\ OnlyAbsencesOrEmpty(Sections, AlwaysLists) => r.ok
            /\ r.ok =>
                 \A n \in Sections :
                    /\ (n \notin DOMAIN body.v \/ body.v[n] = JNull) => r.val[n] = None
                    /\ (n \in DOMAIN body.v /\ body.v[n] = JArr(<<>>)) =>
                           r.val[n] = Some(<<>>) /\ r.val[n] # None
            /\ \A n \in AlwaysLists :
                    /\ n \notin DOMAIN body.v => ~r.ok
                    /\ (r.ok /\ body.v[n] = JArr(<<>>)) => r.val[n] = <<>>

\* C3's case: a body without the key ads, with the other sections, decoded
C3_Witness ==
    /\ IsSome(resp) /\ Unwrap(resp).ok
    /\ edits = {Edit("remove", <<"ads">>, JNull)}
    /\ Unwrap(resp).val["ads"] = None
    /\ Unwrap(resp).val["top_stories"] # None

\* C4 as stated: a body does not decode when a field other than ads,
\* top_stories, top_products, related_questions, sitelinks and
\* snippet_matched is missing or has the wrong JSON type, and the absence of
\* each of these six is tolerated.
C4_ExactlySixOptional ==
    IsSome(resp) =>
        /\ Defective(Resp, body, StatedOptional, FALSE) => ~Unwrap(resp).ok
        /\ OnlyAbsences(StatedOptional) => Unwrap(resp).ok

\* C4, amended: a body does not decode when a field other than the eight
\* fields declared Option (the six, location_auto_message and
\* detected_location) is missing or has another JSON type than declared, a
\* record being accepted as an object and as the array of its fields'
\* values; the absence of each of these eight is tolerated.
C4_ExactlyEightOptional ==
    IsSome(resp) =>
        /\ Defective(Resp, body, DeclaredOptional, TRUE) => ~Unwrap(resp).ok
        /\ OnlyAbsences(DeclaredOptional) => Unwrap(resp).ok

\* C4's case: a body missing request_info.success, decoded
C4_Witness ==
    /\ IsSome(resp) /\ ~Unwrap(resp).ok
    /\ edits = {Edit("remove", <<"request_info", "success">>, JNull)}
    /\ "ads" \in DOMAIN body.v

\* C10: members the schema does not name, at the top level or inside a
\* nested object, change nothing: the body decodes to what it decodes to
\* without them.
C10_UnknownKeysIgnored ==
    (IsSome(resp) /\ \E e \in edits : e.kind = "unknown") =>
        Unwrap(resp) = Decode(Resp, StripUnknown(body))

\* C10's case: a body with an unknown member inside a nested object, decoded
C10_Witness ==
    /\ IsSome(resp) /\ Unwrap(resp).ok
    /\ edits = {Edit("unknown", <<"ads", "0">>, JNull)}
    /\ UnknownKey \in DOMAIN Get(body, <<"ads", "0">>).v

----------------------------------------------------------------------------
(* Claims about decoding a locations response (locations.rs), under        *)
(* SpecLocDecode                                                           *)

\* C8: a body does not decode into LocationResp when any field of its
\* schema is missing, in the response or in an element of locations; a body
\* with every field decodes, also when locations is the empty list.
C8_AllFieldsRequired ==
    IsSome(resp) =>
        LET r == Unwrap(resp)
        IN  /\ LacksField(LocationResp, body) => ~r.ok
            /\ edits = {} => r.ok
            /\ (r.ok /\ body.k = "obj" /\ body.v["locations"] = JArr(<<>>)) =>
                   r.val["locations"] = <<>>

\* C8's case: a body whose location lacks gps_coordinates.latitude, decoded
C8_Witness ==
    /\ IsSome(resp) /\ ~Unwrap(resp).ok
    /\ edits = {Edit("remove", <<"locations", "0", "gps_coordinates", "latitude">>, JNull)}

====
